---- MODULE Spec2Model ----
(***************************************************************************)
(* Axium AI: the credit-gated generation workflow of src/App.tsx, the      *)
(* generation facade of src/services/geminiService.ts and the persistence  *)
(* facade of src/services/supabaseService.ts.                              *)
(*                                                                         *)
(* The browser runs one event loop: every action below is one run of       *)
(* JavaScript between two awaits (an event handler up to its first await,  *)
(* or the continuation of an async function after a promise settled).      *)
(* A handler keeps the props of the render in which it was started: the    *)
(* profile and the onConsume closure it uses are those of that render.     *)
(***************************************************************************)
EXTENDS Integers, Sequences, FiniteSets, Bags, TLC

(* ---------------- bounds of the model ---------------- *)
MaxCalls == 2
MaxTriggers == 1
MaxOverlap == 2
MaxTools == 2
MaxLogins == 1
MaxCredits == 2
MaxSites == 1
MaxLen == 4
MaxPcm == 3

(* ---------------- program constants ---------------- *)
DefaultCredits == 10

Max(a, b) == IF a >= b THEN a ELSE b

(* ---------------- types.ts ---------------- *)
ChatT == "Chat"
ImageT == "ImageGen"
AudioT == "AudioGen"
CoderT == "Coder"
SocialT == "SocialPostGen"
SimpleT == "CopyGen"

ToolType == {ChatT, ImageT, AudioT, CoderT, SocialT, SimpleT}

NoProfile == [plan |-> "none", credits |-> 0]

UserProfile(plan, credits) == [plan |-> plan, credits |-> credits]

(* ---------------- geminiService.ts: response normalizer ---------------- *)
(* A model output is a sequence of tokens: "{" "}" braces, "FENCE" a code    *)
(* fence, "json" the fence tag, " " white space, "prose" brace-free text,  *)
(* "429" prose holding the digits 429, "html" "css" "js" a field with a    *)
(* string value, "html#" the html field with a non-string value and "1" a *)
(* JSON number.                                                            *)

IsSpace(tok) == tok = " "

RECURSIVE TrimStart(_)
TrimStart(s) == IF s # <<>> /\ IsSpace(Head(s)) THEN TrimStart(Tail(s)) ELSE s

RECURSIVE TrimEnd(_)
TrimEnd(s) ==
    IF s # <<>> /\ IsSpace(s[Len(s)]) THEN TrimEnd(SubSeq(s, 1, Len(s) - 1)) ELSE s

Trim(s) == TrimEnd(TrimStart(s))

\* .replace(/^<fence>json\s*/, '')
StripFenceJson(s) ==
    IF Len(s) >= 2 /\ s[1] = "FENCE" /\ s[2] = "json"
    THEN TrimStart(SubSeq(s, 3, Len(s)))
    ELSE s

\* .replace(/^<fence>\s*/, '')
StripFence(s) ==
    IF Len(s) >= 1 /\ s[1] = "FENCE" THEN TrimStart(Tail(s)) ELSE s

\* .replace(/<fence>$/, '')
StripFenceEnd(s) ==
    IF Len(s) >= 1 /\ s[Len(s)] = "FENCE" THEN SubSeq(s, 1, Len(s) - 1) ELSE s

\* indexOf / lastIndexOf, 0 when absent (the code's -1)
IndexOf(s, tok) ==
    IF \E i \in 1..Len(s) : s[i] = tok
    THEN CHOOSE i \in 1..Len(s) : s[i] = tok /\ \A j \in 1..(i - 1) : s[j] # tok
    ELSE 0

LastIndexOf(s, tok) ==
    IF \E i \in 1..Len(s) : s[i] = tok
    THEN CHOOSE i \in 1..Len(s) : s[i] = tok /\ \A j \in (i + 1)..Len(s) : s[j] # tok
    ELSE 0

\* a normalizer that strips the fences and does not slice between the braces
cleanJsonUnsliced(text) ==
    IF text = <<>> THEN <<"{", "}">>
    ELSE StripFenceEnd(StripFence(StripFenceJson(Trim(text))))

cleanJson(text) ==
    IF text = <<>> THEN <<"{", "}">>
    ELSE LET cleaned == StripFenceEnd(StripFence(StripFenceJson(Trim(text))))
             firstBrace == IndexOf(cleaned, "{")
             lastBrace == LastIndexOf(cleaned, "}")
         IN  IF firstBrace # 0 /\ lastBrace # 0
             THEN SubSeq(cleaned, firstBrace, lastBrace)
             ELSE cleaned

(* ---------------- JSON.parse on token sequences ---------------- *)
FieldTokens == {"html", "css", "js", "html#"}

NoSpace(s) == SelectSeq(s, LAMBDA tok : ~IsSpace(tok))

IsJsonObject(s) ==
    LET t == NoSpace(s)
    IN  /\ Len(t) >= 2
        /\ t[1] = "{"
        /\ t[Len(t)] = "}"
        /\ \A i \in 2..(Len(t) - 1) : t[i] \in FieldTokens

IsJsonScalar(s) == NoSpace(s) = <<"1">>

Parseable(s) == IsJsonObject(s) \/ IsJsonScalar(s)

\* the value of field f of the parsed value: "str", "nonstr" or "undef";
\* a later duplicate key wins, as in JSON.parse
FieldOf(s, f) ==
    LET t == NoSpace(s)
        last(tokA, tokB) == Max(LastIndexOf(t, tokA), LastIndexOf(t, tokB))
    IN  IF ~IsJsonObject(s) THEN "undef"
        ELSE IF f = "html"
             THEN IF last("html", "html#") = 0 THEN "undef"
                  ELSE IF t[last("html", "html#")] = "html" THEN "str" ELSE "nonstr"
             ELSE IF LastIndexOf(t, f) = 0 THEN "undef" ELSE "str"

\* JSON.parse: a parsed value, or the SyntaxError it throws
JsonParse(s) ==
    IF IsJsonObject(s)
    THEN [kind |-> "object", html |-> FieldOf(s, "html"), css |-> FieldOf(s, "css"),
          js |-> FieldOf(s, "js")]
    ELSE IF IsJsonScalar(s)
    THEN [kind |-> "number", html |-> "undef", css |-> "undef", js |-> "undef"]
    ELSE [kind |-> "SyntaxError", html |-> "undef", css |-> "undef", js |-> "undef"]

(* ---------------- geminiService.ts: error classification ---------------- *)
\* An error message: who wrote it, and whether its text holds "429" / "SAFETY".
Msg(id, has429, hasSafety) == [id |-> id, has429 |-> has429, hasSafety |-> hasSafety]

QuotaMsg == Msg("quota", TRUE, FALSE)
SafetyMsg == Msg("safety", FALSE, FALSE)
ImageFailMsg == Msg("imageFail", FALSE, FALSE)
NoAudioMsg == Msg("noAudio", FALSE, FALSE)
NoMsg == Msg("none", FALSE, FALSE)
ConfigMsg == Msg("config", FALSE, FALSE)
TypeErrorMsg == Msg("TypeError", FALSE, FALSE)

\* a thrown value: its message and its status / error.code
Err(msg, status) == [msg |-> msg, status |-> status]

formatError(e) ==
    IF e.msg.has429 \/ e.status = 429 THEN QuotaMsg
    ELSE IF e.msg.hasSafety THEN SafetyMsg
    ELSE e.msg

\* the message of the SyntaxError JSON.parse throws; whether it quotes the
\* offending text depends on the JavaScript engine (echo)
SyntaxErrorOf(s, echo) ==
    Err(Msg("SyntaxError", echo /\ \E i \in 1..Len(s) : s[i] = "429", FALSE), 0)

(* ---------------- geminiService.ts: the audio container ---------------- *)
(* A byte is a number in 0..255 and a buffer a sequence of bytes. A number  *)
(* that may pass 2^31 is written as its base-256 digits, lowest first. A    *)
(* base64 string is a sequence of sextets 0..63, with 64 for the pad '='.   *)

\* the digits of a small number n, as DataView.setUint32(.., n, true) lays them out
Uint32(n) == <<n % 256, (n \div 256) % 256, (n \div 65536) % 256, (n \div 16777216) % 256>>

\* DataView.setUint16(.., n, true)
Uint16(n) == <<n % 256, (n \div 256) % 256>>

\* the digits of twice the number with digits d: one digit longer
Times2(d) ==
    [i \in 1..(Len(d) + 1) |->
        (2 * (IF i <= Len(d) THEN d[i] ELSE 0)
           + (IF i > 1 /\ d[i - 1] >= 128 THEN 1 ELSE 0)) % 256]

\* setUint32 of a number given by its digits: the value modulo 2^32
Low32(d) == [i \in 1..4 |-> IF i <= Len(d) THEN d[i] ELSE 0]

Pad == 64

\* btoa: three bytes become four sextets, the last group padded with '='
btoa(bytes) ==
    LET n == Len(bytes)
        at(i) == IF i <= n THEN bytes[i] ELSE 0
    IN  [j \in 1..(4 * ((n + 2) \div 3)) |->
            LET k == (j - 1) \div 4
                r == (j - 1) % 4
                b1 == at(3 * k + 1)
                b2 == at(3 * k + 2)
                b3 == at(3 * k + 3)
            IN  CASE r = 0 -> b1 \div 4
                  [] r = 1 -> (b1 % 4) * 16 + b2 \div 16
                  [] r = 2 -> IF 3 * k + 2 > n THEN Pad ELSE (b2 % 16) * 4 + b3 \div 64
                  [] r = 3 -> IF 3 * k + 3 > n THEN Pad ELSE b3 % 64]

\* atob: four sextets become three bytes, fewer where the group is padded
atob(base64) ==
    LET pads == Cardinality({j \in 1..Len(base64) : base64[j] = Pad})
        n == 3 * (Len(base64) \div 4) - pads
    IN  [i \in 1..n |->
            LET k == (i - 1) \div 3
                r == (i - 1) % 3
                s1 == base64[4 * k + 1]
                s2 == base64[4 * k + 2]
                s3 == base64[4 * k + 3]
                s4 == base64[4 * k + 4]
            IN  CASE r = 0 -> s1 * 4 + s2 \div 16
                  [] r = 1 -> (s2 % 16) * 16 + s3 \div 4
                  [] r = 2 -> (s3 % 4) * 64 + s4]

\* a builder that writes the payload's size where the container's size belongs
pcmToWavDataSize(base64, sampleRate) ==
    LET binaryString == atob(base64)
        len == Len(binaryString)
        buffer == <<82, 73, 70, 70>> \o Uint32(len)
                  \o <<87, 65, 86, 69>> \o <<102, 109, 116, 32>>
                  \o Uint32(16) \o Uint16(1) \o Uint16(1)
                  \o Low32(sampleRate) \o Low32(Times2(sampleRate))
                  \o Uint16(2) \o Uint16(16)
                  \o <<100, 97, 116, 97>> \o Uint32(len)
                  \o binaryString
    IN  [prefix |-> "data:audio/wav;base64,", base64 |-> btoa(buffer)]

\* pcmToWav(base64, sampleRate): the 44-byte header, then the payload; what it
\* returns is 'data:audio/wav;base64,' followed by btoa of the buffer
pcmToWav(base64, sampleRate) ==
    LET binaryString == atob(base64)
        len == Len(binaryString)
        buffer == <<82, 73, 70, 70>> \o Uint32(36 + len)
                  \o <<87, 65, 86, 69>> \o <<102, 109, 116, 32>>
                  \o Uint32(16) \o Uint16(1) \o Uint16(1)
                  \o Low32(sampleRate) \o Low32(Times2(sampleRate))
                  \o Uint16(2) \o Uint16(16)
                  \o <<100, 97, 116, 97>> \o Uint32(len)
                  \o binaryString
    IN  [prefix |-> "data:audio/wav;base64,", base64 |-> btoa(buffer)]

(* ---------------- geminiService.ts: generators ---------------- *)
VARIABLE apiKey     \* process.env.API_KEY is set to a non-empty string

\* A provider response: status "ok" with a text (and, for audio, inline data),
\* or status "error" with the thrown value. cand is the shape of
\* response.candidates: "absent", "empty" (an empty list), "noMeta" (a first
\* candidate without groundingMetadata), "noChunks" (metadata without
\* groundingChunks) or "chunks".
Response(status, text, data, err) ==
    [status |-> status, text |-> text, data |-> data, err |-> err, cand |-> "absent"]

Candidates == {"absent", "empty", "noMeta", "noChunks", "chunks"}

WithCandidates(resp, cand) == [resp EXCEPT !.cand = cand]

OkText(text) == Response("ok", text, TRUE, Err(NoMsg, 0))
Failed(e) == Response("error", <<>>, FALSE, e)

NoValue == [kind |-> "none", html |-> "undef", css |-> "undef", js |-> "undef"]

\* what a generator gives its caller: a value, or a thrown Error(message);
\* net tells whether it sent its request
Returned(val) == [ok |-> TRUE, val |-> val, msg |-> NoMsg, net |-> TRUE]
Thrown(msg) == [ok |-> FALSE, val |-> NoValue, msg |-> msg, net |-> TRUE]

\* checkApiKey() threw: the generator is left before its try
checkApiKey == [ok |-> FALSE, val |-> NoValue, msg |-> ConfigMsg, net |-> FALSE]

\* a text; kind "grounded" when it comes with a non-empty list of sources
TextValue == [kind |-> "text", html |-> "undef", css |-> "undef", js |-> "undef"]

\* response.candidates && response.candidates[0].groundingMetadata?.groundingChunks:
\* candidates[0] of an empty list is undefined, and reading a property of it throws
generateTextChat(resp) ==
    IF ~apiKey THEN checkApiKey
    ELSE IF resp.status = "ok"
    THEN IF resp.cand = "empty" THEN Thrown(formatError(Err(TypeErrorMsg, 0)))
         ELSE Returned([TextValue EXCEPT !.kind = IF resp.cand = "chunks" THEN "grounded"
                                                   ELSE "text"])
    ELSE Thrown(formatError(resp.err))

\* no credential is checked: the image provider needs none
generateImage(resp) ==
    IF resp.status = "ok" THEN Returned(TextValue) ELSE Thrown(ImageFailMsg)

\* an audio generator that does not check the credential
generateAudioUnchecked(resp) ==
    IF resp.status = "ok"
    THEN IF resp.data THEN Returned(TextValue)
         ELSE Thrown(formatError(Err(NoAudioMsg, 0)))
    ELSE Thrown(formatError(resp.err))

generateAudio(resp) ==
    IF ~apiKey THEN checkApiKey
    ELSE IF resp.status = "ok"
    THEN IF resp.data THEN Returned(TextValue)
         ELSE Thrown(formatError(Err(NoAudioMsg, 0)))
    ELSE Thrown(formatError(resp.err))

\* response.text || '{}'
TextOrEmptyObject(text) == IF text = <<>> THEN <<"{", "}">> ELSE text

\* a code generator that returns whatever it could not parse as an object without fields
generateCodeUnparsed(resp, echo) ==
    IF resp.status = "ok"
    THEN Returned([JsonParse(cleanJson(TextOrEmptyObject(resp.text))) EXCEPT !.kind = "object"])
    ELSE Thrown(formatError(resp.err))

generateCode(resp, echo) ==
    IF ~apiKey THEN checkApiKey
    ELSE IF resp.status = "ok"
    THEN LET cleanedText == cleanJson(TextOrEmptyObject(resp.text))
             parsed == JsonParse(cleanedText)
         IN  IF parsed.kind = "SyntaxError"
             THEN Thrown(formatError(SyntaxErrorOf(cleanedText, echo)))
             ELSE Returned(parsed)
    ELSE Thrown(formatError(resp.err))

generateStructuredData(resp, echo) ==
    IF ~apiKey THEN checkApiKey
    ELSE IF resp.status = "ok"
    THEN LET cleanedText == cleanJson(TextOrEmptyObject(resp.text))
             parsed == JsonParse(cleanedText)
         IN  IF parsed.kind = "SyntaxError"
             THEN Thrown(formatError(SyntaxErrorOf(cleanedText, echo)))
             ELSE Returned(parsed)
    ELSE Thrown(formatError(resp.err))

generateSocialPost(resp, echo) ==
    IF ~apiKey THEN checkApiKey ELSE generateStructuredData(resp, echo)

generateText(resp) ==
    IF ~apiKey THEN checkApiKey
    ELSE IF resp.status = "ok" THEN Returned(TextValue) ELSE Thrown(formatError(resp.err))

(* ---------------- what the remote model may answer ---------------- *)
ProviderErrors ==
    { Err(Msg("provider", FALSE, FALSE), 500),
      Err(Msg("provider", FALSE, FALSE), 429),
      Err(Msg("provider", TRUE, FALSE), 0),
      Err(Msg("provider", FALSE, TRUE), 0),
      Err(Msg("provider", TRUE, TRUE), 0) }

StructuredTexts ==
    { <<"{", "html", "css", "js", "}">>,
      <<"FENCE", "json", " ", "{", "html", "css", "js", "}", " ", "FENCE">>,
      <<"prose", "{", "html", "css", "js", "}", "prose">>,
      <<"{", "html", "css", "}">>,
      <<"{", "html#", "css", "js", "}">>,
      <<"{", "}">>,
      <<>>,
      <<"prose">>,
      <<"{", "prose", "}">>,
      <<"{", "429", "}">>,
      <<"1">> }

Structured(t) == t \in {CoderT, SocialT}

Responses(t) ==
    {Failed(e) : e \in ProviderErrors}
    \cup (IF t = ChatT THEN {WithCandidates(OkText(<<"prose">>), cand) : cand \in Candidates}
          ELSE {})
    \cup (IF Structured(t) THEN {OkText(text) : text \in StructuredTexts}
          ELSE {OkText(<<"prose">>)})
    \cup (IF t = AudioT THEN {Response("ok", <<>>, FALSE, Err(NoMsg, 0))} ELSE {})

(* ---------------- state ---------------- *)
VARIABLES
    authStage,      \* App: 'landing' | 'login' | 'app'
    session,        \* App: a session object is held
    activeTool,     \* App: the tool rendered
    userProfile,    \* App: the cached profile, NoProfile for null
    showUpgrade,    \* App: the upgrade prompt is open
    loading,        \* the mounted tool's busy flag
    messages,       \* ChatTool: the transcript shown, a sequence of "user" | "model" | "error"
    currentChatId,  \* ChatTool: 0 for null
    content,        \* the result shown by the image, audio, social and simple tools
    coder,          \* CoderTool state: html, css, js and the last message of its chat log
    authed,         \* the auth service holds a user for this client
    storeProfile,   \* the row of table profiles, NoProfile when there is none
    sites,          \* the rows of table sites
    chats,          \* the rows of table chats: for each id, whether there is a row and its messages
    calls,          \* the async functions in flight, a bag
    started,        \* handlers started so far
    logins,         \* sign-ins so far
    visited,        \* the tools rendered so far
    maxStarted,     \* handlers a run may start
    fin,            \* the argument of a facade function called on its own
    fout,           \* what that call gave
    ev              \* the step just taken

vars == <<authStage, session, activeTool, userProfile, showUpgrade, loading, messages,
          currentChatId, content, coder, authed, storeProfile, sites, chats, calls, started,
          logins,
          visited, maxStarted, apiKey, fin, fout, ev>>

appVars == <<authStage, session, activeTool, userProfile, showUpgrade>>
toolVars == <<loading, messages, currentChatId, content, coder>>
storeVars == <<authed, storeProfile, sites, chats>>
envVars == <<apiKey, fin, fout>>
boundVars == <<started, logins, visited, maxStarted, envVars>>

ContentTools == {ImageT, AudioT, SocialT, SimpleT}

InitialCoder == [html |-> "str", css |-> "str", js |-> "str", history |-> 0,
                 chatHistory |-> "none"]

NoCall == [kind |-> "none", tool |-> "none", pc |-> "none", snap |-> NoProfile,
           att |-> FALSE, msgs |-> <<>>, chatId |-> 0, id |-> 0, res |-> "none",
           val |-> NoProfile]

Call(kind, tool, pc, snap, att) == [NoCall EXCEPT !.kind = kind, !.tool = tool, !.pc = pc,
                                                  !.snap = snap, !.att = att]

Add(cs, c) == cs (+) SetToBag({c})
Remove(cs, c) == cs (-) SetToBag({c})
Replace(cs, c, d) == Add(Remove(cs, c), d)
InFlight == BagToSet(calls)
HasFree == BagCardinality(calls) < MaxCalls

\* what a tool shows the user after a failure: a text of its own, followed by
\* the error's message (detail) where the tool appends it
Shown(text, detail) == [text |-> text, detail |-> detail]

Nothing == Shown("none", NoMsg)

Event(kind, tool, msg, note) ==
    [kind |-> kind, tool |-> tool, msg |-> msg, note |-> note, shown |-> Nothing]

\* the step showed the user a failure message
Showing(e, shown) == [e EXCEPT !.shown = shown]

\* a step no property below asks about
Other == Event("other", "none", NoMsg, "none")

\* the argument and the result of a facade function called on its own
NoArg == [fn |-> "none", resp |-> Failed(Err(NoMsg, 0)), echo |-> FALSE, text |-> <<>>,
          base64 |-> <<>>, sampleRate |-> <<>>]

NoResult == [fn |-> "none", res |-> [ok |-> FALSE, val |-> NoValue, msg |-> NoMsg, net |-> FALSE],
             text |-> <<>>, wav |-> <<>>]

\* the ids createChat may give, and a row of table chats
ChatIds == 1..Max(MaxTriggers, MaxOverlap)

NoChat == [created |-> FALSE, messages |-> <<>>, title |-> "none"]

\* createChat(title = "Novo Chat"): insert([{ user_id, title, messages: [] }])
NewChat == [created |-> TRUE, messages |-> <<>>, title |-> "Novo Chat"]

\* the tools are rendered only in stage 'app' with a session
Rendered == authStage = "app" /\ session

Boot ==
    /\ authStage = "landing"
    /\ session = FALSE
    /\ activeTool = ChatT
    /\ userProfile = NoProfile
    /\ showUpgrade = FALSE
    /\ loading = FALSE
    /\ messages = <<>>
    /\ currentChatId = 0
    /\ content = [t \in ContentTools |-> "empty"]
    /\ coder = InitialCoder
    /\ authed \in BOOLEAN
    /\ storeProfile \in {NoProfile, UserProfile("pro", 0)}
                        \cup {UserProfile("free", c) : c \in 0..MaxCredits}
    /\ sites = 0
    /\ chats = [id \in ChatIds |-> NoChat]
    /\ calls = SetToBag({Call("getSession", "none", "boot", NoProfile, TRUE)})
    /\ started = 0
    /\ logins = 0
    /\ visited = {ChatT}
    /\ apiKey \in BOOLEAN
    /\ fout = NoResult
    /\ ev = Other

Init == Boot /\ fin = NoArg /\ maxStarted = MaxTriggers

(* ---------------- the quota gate and the local decrement ---------------- *)
\* a gate that lets a free profile with no credits through
canProceedAtZero(profile) ==
    ~(profile # NoProfile /\ profile.plan = "free" /\ profile.credits < 0)

\* if (profile && profile.plan === 'free' && profile.credits <= 0) { onLimitReached(); return; }
canProceed(profile) ==
    ~(profile # NoProfile /\ profile.plan = "free" /\ profile.credits <= 0)

\* a decrement by two without the clamp
DecrementedTwice(profile) == [profile EXCEPT !.credits = profile.credits - 2]

\* { ...userProfile, credits: Math.max(0, userProfile.credits - 1) }
Decremented(profile) == [profile EXCEPT !.credits = Max(0, profile.credits - 1)]

\* if (userProfile && userProfile.plan === 'free') setUserProfile(...)
AfterConsume(current, snap) ==
    IF snap # NoProfile /\ snap.plan = "free" THEN Decremented(snap) ELSE current

(* ---------------- unmounting ---------------- *)
\* a call started by a component that unmounts loses it
Loses(c, t) ==
    \/ c.kind = "handler" /\ c.tool = t
    \/ c.kind = "fetch" /\ c.tool = "modal" /\ t = "modal"

Detached(c, t) == IF Loses(c, t) THEN [c EXCEPT !.att = FALSE] ELSE c

Detach(cs, t) ==
    LET after == {Detached(c, t) : c \in BagToSet(cs)}
    IN  [d \in after |->
            LET from == {c \in BagToSet(cs) : Detached(c, t) = d}
                one == CHOOSE c \in from : TRUE
            IN  IF Cardinality(from) = 1 THEN CopiesIn(one, cs)
                ELSE CopiesIn(one, cs) + CopiesIn(CHOOSE c \in from : c # one, cs)]

(* ---------------- the tools' handlers, up to their first await ---------------- *)
Inputs == {"empty", "blank", "text"}

\* !value.trim()
TrimsToEmpty(inp) == inp \in {"empty", "blank"}

\* room for one more async function within the bounds of the model
MayStart == HasFree /\ started < maxStarted

\* the handler returned before the gate: nothing happens
Ignored(t) ==
    /\ ev' = Event("ignored", t, NoMsg, "none")
    /\ UNCHANGED <<appVars, toolVars, storeVars, calls, boundVars>>

\* onLimitReached(); return;   with   handleLimitReached = () => setShowUpgrade(true)
handleLimitReached(t) ==
    /\ showUpgrade' = TRUE
    /\ ev' = Event("blocked", t, NoMsg, "none")
    /\ UNCHANGED <<authStage, session, activeTool, userProfile, toolVars, storeVars, calls,
                   boundVars>>

\* the handler's async function, holding the props of this render
Handler(t, pc) == [Call("handler", t, pc, userProfile, TRUE) EXCEPT !.id = started + 1]

ChatTool_handleSend(inp) ==
    /\ Rendered /\ activeTool = ChatT
    \* ExpandedInput sends only a trimmed non-empty value while not loading;
    \* the suggestion buttons, shown while messages is empty, always send a text
    /\ inp = "text"
    /\ ~loading \/ messages = <<>>
    /\ IF TrimsToEmpty(inp) THEN Ignored(ChatT)
       ELSE IF ~canProceed(userProfile) THEN handleLimitReached(ChatT)
       ELSE /\ MayStart
            /\ messages' = Append(messages, "user")
            /\ loading' = TRUE
            /\ calls' = Add(calls, [Handler(ChatT, IF currentChatId = 0 THEN "createChat" ELSE "gen")
                                      EXCEPT !.msgs = messages, !.chatId = currentChatId])
            /\ started' = started + 1
            /\ ev' = Event(IF currentChatId = 0 THEN "started" ELSE "issued", ChatT, NoMsg, "none")
            /\ UNCHANGED <<appVars, currentChatId, content, coder, storeVars, logins, visited, maxStarted,
                           envVars>>

\* the handlers of the tools that call the generator first
StartGen(t) ==
    /\ MayStart
    /\ loading' = TRUE
    /\ calls' = Add(calls, Handler(t, "gen"))
    /\ started' = started + 1
    /\ ev' = Event("issued", t, NoMsg, "none")
    /\ UNCHANGED <<appVars, messages, currentChatId, storeVars, logins, visited, maxStarted,
                           envVars>>

ImageTool_handleGenerate(inp) ==
    /\ Rendered /\ activeTool = ImageT /\ ~loading
    /\ IF TrimsToEmpty(inp) THEN Ignored(ImageT)
       ELSE IF ~canProceed(userProfile) THEN handleLimitReached(ImageT)
       ELSE StartGen(ImageT) /\ UNCHANGED <<content, coder>>

AudioTool_handleGenerate(inp) ==
    /\ Rendered /\ activeTool = AudioT /\ ~loading
    \* the button is disabled while text is the empty string
    /\ inp # "empty"
    /\ IF TrimsToEmpty(inp) THEN Ignored(AudioT)
       ELSE IF ~canProceed(userProfile) THEN handleLimitReached(AudioT)
       ELSE /\ StartGen(AudioT)
            /\ content' = [content EXCEPT ![AudioT] = "empty"]
            /\ UNCHANGED coder

CoderTool_handleCodeUpdate(inp) ==
    /\ Rendered /\ activeTool = CoderT /\ ~loading
    /\ IF TrimsToEmpty(inp) THEN Ignored(CoderT)
       ELSE IF ~canProceed(userProfile) THEN handleLimitReached(CoderT)
       ELSE /\ StartGen(CoderT)
            /\ coder' = [coder EXCEPT !.chatHistory = "user"]
            /\ UNCHANGED content

SocialDesignTool_handleGenerate(inp) ==
    /\ Rendered /\ activeTool = SocialT /\ ~loading
    \* if (!topic) return;   the topic is not trimmed
    /\ IF inp = "empty" THEN Ignored(SocialT)
       ELSE IF ~canProceed(userProfile) THEN handleLimitReached(SocialT)
       ELSE StartGen(SocialT) /\ UNCHANGED <<content, coder>>

SimpleGenTool_handleSend(inp) ==
    /\ Rendered /\ activeTool = SimpleT /\ ~loading
    /\ IF TrimsToEmpty(inp) THEN Ignored(SimpleT)
       ELSE IF ~canProceed(userProfile) THEN handleLimitReached(SimpleT)
       ELSE StartGen(SimpleT) /\ UNCHANGED <<content, coder>>

(* ---------------- App.handleConsumeCredit / handleSignOut, as started by a handler ---------------- *)
\* onConsume(): handleConsumeCredit runs to its await of Supabase.consumeCredit();
\* it keeps the userProfile of the render the handler was started in
ConsumeCall(c) == [Call("consume", c.tool, "rpc", c.snap, c.att) EXCEPT !.id = c.id]

\* onAuthError(): handleSignOut runs to its await of Supabase.signOut()
SignOutCall == Call("signOut", "none", "signOut", NoProfile, TRUE)

\* finally { setLoading(false) }: a state update of an unmounted component is dropped
StopLoading(c) == loading' = IF c.att THEN FALSE ELSE loading

\* e.message.includes("autenticado") || e.message.includes("JWT")
IsAuthError(res) == res \in {"unauth", "jwt"}

(* ---------------- ChatTool.handleSend, after each await ---------------- *)
\* await Supabase.createChat()
ChatTool_createChatReturn(c, dbOk) ==
    LET res == IF ~authed THEN "unauth" ELSE IF dbOk THEN "ok" ELSE "error"
    IN  /\ c.kind = "handler" /\ c.tool = ChatT /\ c.pc = "createChat"
        /\ IF res = "ok"
           THEN /\ chats' = [chats EXCEPT ![c.id] = NewChat]
                /\ currentChatId' = IF c.att THEN c.id ELSE currentChatId
                /\ calls' = Replace(calls, c, [c EXCEPT !.pc = "gen", !.chatId = c.id])
                /\ ev' = Event("issued", ChatT, NoMsg, "none")
                /\ UNCHANGED <<loading, messages>>
           ELSE IF IsAuthError(res)
           THEN /\ calls' = Replace(calls, c, SignOutCall)
                /\ StopLoading(c)
                /\ ev' = Event("authError", ChatT, NoMsg, "createChat")
                /\ UNCHANGED <<messages, currentChatId, chats>>
           ELSE /\ calls' = Remove(calls, c)
                /\ messages' = IF c.att THEN Append(messages, "error") ELSE messages
                /\ StopLoading(c)
                /\ ev' = Event("failed", ChatT, NoMsg, "createChat")
                /\ UNCHANGED <<currentChatId, chats>>
        /\ UNCHANGED <<appVars, content, coder, authed, storeProfile, sites, boundVars>>

\* await Gemini.generateTextChat(apiHistory, userMsg.content)
ChatTool_generateReturn(c, resp) ==
    LET r == generateTextChat(resp)
        updatedMessages == c.msgs \o <<"user", "model">>
    IN  /\ c.kind = "handler" /\ c.tool = ChatT /\ c.pc = "gen"
        /\ IF r.ok
           THEN /\ messages' = IF c.att THEN updatedMessages ELSE messages
                /\ calls' = Replace(calls, c, [c EXCEPT !.pc = IF Len(updatedMessages) = 2
                                                                 THEN "title" ELSE "updateChat"])
                /\ ev' = Event("genOk", ChatT, NoMsg, c.snap.plan)
                /\ UNCHANGED loading
           ELSE /\ messages' = IF c.att THEN Append(messages, "error") ELSE messages
                /\ calls' = Remove(calls, c)
                /\ StopLoading(c)
                /\ ev' = Showing(Event("genFailed", ChatT, r.msg, "none"),
                                 Shown("Desculpe, encontrei um erro de conexao.", NoMsg))
        /\ UNCHANGED <<appVars, currentChatId, content, coder, storeVars, boundVars>>

\* response.text?.trim() || "Novo Chat", and "Novo Chat" from the catch
generateChatTitle(ok) == IF ok THEN "generated" ELSE "Novo Chat"

\* await Gemini.generateChatTitle(userMsg.content): it never throws
ChatTool_titleReturn(c, ok) ==
    /\ c.kind = "handler" /\ c.tool = ChatT /\ c.pc = "title"
    /\ calls' = Replace(calls, c, [c EXCEPT !.pc = "updateChat", !.res = generateChatTitle(ok)])
    /\ ev' = Other
    /\ UNCHANGED <<appVars, toolVars, storeVars, boundVars>>

\* a chat handler that consumes the credit without persisting the transcript
ChatTool_updateChatReturnUnsaved(c, res) ==
    /\ c.kind = "handler" /\ c.tool = ChatT /\ c.pc = "updateChat"
    /\ res = "ok"
    /\ calls' = Replace(calls, c, ConsumeCall(c))
    /\ ev' = Event("saved", ChatT, NoMsg, c.snap.plan)
    /\ StopLoading(c)
    /\ UNCHANGED <<appVars, messages, currentChatId, content, coder, storeVars, boundVars>>

\* await Supabase.updateChat(chatId, updatedMessages, title); onConsume();
ChatTool_updateChatReturn(c, res) ==
    /\ c.kind = "handler" /\ c.tool = ChatT /\ c.pc = "updateChat"
    /\ res \in (IF authed THEN {"ok", "error"} ELSE {"jwt", "error"})
    /\ IF res = "ok"
       THEN \* const updates = { messages }; if (title) updates.title = title;
            /\ chats' = [chats EXCEPT ![c.chatId].messages = c.msgs \o <<"user", "model">>,
                                      ![c.chatId].title = IF c.res # "none" THEN c.res ELSE @]
            /\ calls' = Replace(calls, c, ConsumeCall(c))
            /\ ev' = Event("saved", ChatT, NoMsg, c.snap.plan)
            /\ UNCHANGED messages
       ELSE IF IsAuthError(res)
       THEN /\ calls' = Replace(calls, c, SignOutCall)
            /\ ev' = Event("authError", ChatT, NoMsg, "updateChat")
            /\ UNCHANGED <<messages, chats>>
       ELSE /\ calls' = Remove(calls, c)
            /\ messages' = IF c.att THEN Append(messages, "error") ELSE messages
            /\ ev' = Event("saveFailed", ChatT, NoMsg, c.snap.plan)
            /\ UNCHANGED chats
    /\ StopLoading(c)
    /\ UNCHANGED <<appVars, currentChatId, content, coder, authed, storeProfile, sites, boundVars>>

(* ---------------- ImageTool.handleGenerate, after each await ---------------- *)
\* await Gemini.generateImage(prompt)
ImageTool_generateReturn(c, resp) ==
    LET r == generateImage(resp)
    IN  /\ c.kind = "handler" /\ c.tool = ImageT /\ c.pc = "gen"
        /\ IF r.ok
           THEN /\ calls' = Replace(calls, c, [c EXCEPT !.pc = "saveImage"])
                /\ ev' = Event("genOk", ImageT, NoMsg, c.snap.plan)
                /\ UNCHANGED loading
           ELSE /\ calls' = Remove(calls, c)
                /\ StopLoading(c)
                /\ ev' = Showing(Event("genFailed", ImageT, r.msg, "none"),
                                 Shown("Falha ao gerar imagem: ", r.msg))
        /\ UNCHANGED <<appVars, messages, currentChatId, content, coder, storeVars, boundVars>>

\* await Supabase.saveImage(url, prompt): it returns without saving when there is no user
ImageTool_saveImageReturn(c, dbOk) ==
    LET res == IF ~authed THEN "skipped" ELSE IF dbOk THEN "ok" ELSE "error"
    IN  /\ c.kind = "handler" /\ c.tool = ImageT /\ c.pc = "saveImage"
        /\ IF res = "error"
           THEN /\ calls' = Remove(calls, c)
                /\ ev' = Event("saveFailed", ImageT, NoMsg, c.snap.plan)
                /\ UNCHANGED content
           ELSE /\ content' = IF c.att THEN [content EXCEPT ![ImageT] = "result"] ELSE content
                /\ calls' = Replace(calls, c, ConsumeCall(c))
                /\ ev' = Event("saved", ImageT, NoMsg, c.snap.plan)
        /\ StopLoading(c)
        /\ UNCHANGED <<appVars, messages, currentChatId, coder, storeVars, boundVars>>

(* ---------------- the other tools, after await Gemini.generate...() ---------------- *)
\* what the model's output was, for a structured generator
Shape(resp) ==
    IF resp.status # "ok" THEN "none"
    ELSE LET cleanedText == cleanJson(TextOrEmptyObject(resp.text))
         IN  IF ~Parseable(cleanedText) THEN "malformed"
             ELSE IF \A f \in {"html", "css", "js"} : FieldOf(cleanedText, f) = "str"
                  THEN "complete"
                  ELSE "incomplete"

\* an audio handler that charges for a failed generation as well
AudioTool_generateReturnCharging(c, resp) ==
    LET r == generateAudio(resp)
    IN  /\ c.kind = "handler" /\ c.tool = AudioT /\ c.pc = "gen"
        /\ content' = IF c.att /\ r.ok THEN [content EXCEPT ![AudioT] = "result"] ELSE content
        /\ calls' = Replace(calls, c, ConsumeCall(c))
        /\ ev' = IF r.ok THEN Event("genOk", AudioT, NoMsg, c.snap.plan)
                 ELSE Event("genFailed", AudioT, r.msg, "none")
        /\ StopLoading(c)
        /\ UNCHANGED <<appVars, messages, currentChatId, coder, storeVars, boundVars>>

AudioTool_generateReturn(c, resp) ==
    LET r == generateAudio(resp)
    IN  /\ c.kind = "handler" /\ c.tool = AudioT /\ c.pc = "gen"
        /\ IF r.ok
           THEN /\ content' = IF c.att THEN [content EXCEPT ![AudioT] = "result"] ELSE content
                /\ calls' = Replace(calls, c, ConsumeCall(c))
                /\ ev' = Event("genOk", AudioT, NoMsg, c.snap.plan)
           ELSE /\ calls' = Remove(calls, c)
                /\ ev' = Showing(Event("genFailed", AudioT, r.msg, "none"),
                                 Shown("Falha ao gerar audio", NoMsg))
                /\ UNCHANGED content
        /\ StopLoading(c)
        /\ UNCHANGED <<appVars, messages, currentChatId, coder, storeVars, boundVars>>

CoderTool_generateReturn(c, resp, echo) ==
    LET codeResult == generateCode(resp, echo)
    IN  /\ c.kind = "handler" /\ c.tool = CoderT /\ c.pc = "gen"
        /\ IF codeResult.ok
           THEN /\ coder' = IF c.att
                            THEN [coder EXCEPT !.html = codeResult.val.html,
                                               !.css = codeResult.val.css,
                                               !.js = codeResult.val.js,
                                               !.chatHistory = "updated"]
                            ELSE coder
                /\ calls' = Replace(calls, c, ConsumeCall(c))
                /\ ev' = Event("genOk", CoderT, NoMsg, Shape(resp))
           ELSE /\ coder' = IF c.att THEN [coder EXCEPT !.chatHistory = "failed"] ELSE coder
                /\ calls' = Remove(calls, c)
                /\ ev' = Showing(Event("genFailed", CoderT, codeResult.msg, Shape(resp)),
                                 Shown("Falha ao atualizar o codigo.", NoMsg))
        /\ StopLoading(c)
        /\ UNCHANGED <<appVars, messages, currentChatId, content, storeVars, boundVars>>

SocialDesignTool_generateReturn(c, resp, echo) ==
    LET data == generateSocialPost(resp, echo)
    IN  /\ c.kind = "handler" /\ c.tool = SocialT /\ c.pc = "gen"
        /\ IF data.ok
           THEN /\ content' = IF c.att THEN [content EXCEPT ![SocialT] = "result"] ELSE content
                /\ calls' = Replace(calls, c, ConsumeCall(c))
                /\ ev' = Event("genOk", SocialT, NoMsg, Shape(resp))
           ELSE /\ calls' = Remove(calls, c)
                /\ ev' = Showing(Event("genFailed", SocialT, data.msg, Shape(resp)),
                                 Shown("Erro ao gerar post. ", data.msg))
                /\ UNCHANGED content
        /\ StopLoading(c)
        /\ UNCHANGED <<appVars, messages, currentChatId, coder, storeVars, boundVars>>

SimpleGenTool_generateReturn(c, resp) ==
    LET r == generateText(resp)
    IN  /\ c.kind = "handler" /\ c.tool = SimpleT /\ c.pc = "gen"
        /\ IF r.ok
           THEN /\ content' = IF c.att THEN [content EXCEPT ![SimpleT] = "result"] ELSE content
                /\ calls' = Replace(calls, c, ConsumeCall(c))
                /\ ev' = Event("genOk", SimpleT, NoMsg, c.snap.plan)
           ELSE /\ content' = IF c.att THEN [content EXCEPT ![SimpleT] = "error"] ELSE content
                /\ calls' = Remove(calls, c)
                /\ ev' = Showing(Event("genFailed", SimpleT, r.msg, "none"),
                                 Shown("Erro ao gerar conteudo.", NoMsg))
        /\ StopLoading(c)
        /\ UNCHANGED <<appVars, messages, currentChatId, coder, storeVars, boundVars>>

(* ---------------- the quota ledger ---------------- *)
\* the remote procedure consume_credit(user_id): the durable decrement
consume_credit(row) ==
    IF row # NoProfile /\ row.plan = "free" /\ row.credits > 0
    THEN [row EXCEPT !.credits = row.credits - 1]
    ELSE row

\* Supabase.consumeCredit(): the store's part
consumeCredit(c, rpcOk) ==
    LET res == IF ~authed THEN "unauth" ELSE IF rpcOk THEN "ok" ELSE "error"
    IN  /\ c.kind = "consume" /\ c.pc = "rpc"
        /\ storeProfile' = IF res = "ok" THEN consume_credit(storeProfile) ELSE storeProfile
        /\ calls' = Replace(calls, c, [c EXCEPT !.pc = "settled", !.res = res])
        /\ ev' = Event("rpc", c.tool, NoMsg, res)
        /\ UNCHANGED <<appVars, toolVars, authed, sites, chats, boundVars>>

\* App.handleConsumeCredit, after await Supabase.consumeCredit()
handleConsumeCredit(c) ==
    /\ c.kind = "consume" /\ c.pc = "settled"
    /\ userProfile' = IF c.res = "ok" THEN AfterConsume(userProfile, c.snap) ELSE userProfile
    /\ calls' = Remove(calls, c)
    /\ ev' = Event("consumed", c.tool, NoMsg, c.res)
    /\ UNCHANGED <<authStage, session, activeTool, showUpgrade, toolVars, storeVars, boundVars>>

(* ---------------- the profile ---------------- *)
FetchCall(origin) == Call("fetch", origin, "select", NoProfile, TRUE)

\* Supabase.getUserProfile(), up to the answer of its select: null with no
\* user or on an error, the row when there is one, and on to the insert when
\* the select found no row (PGRST116)
getUserProfile(c, dbOk) ==
    LET res == IF ~authed THEN "unauth" ELSE IF dbOk THEN "ok" ELSE "error"
    IN  /\ c.kind = "fetch" /\ c.pc = "select"
        /\ calls' = Replace(calls, c,
                IF res # "ok" THEN [c EXCEPT !.pc = "settled", !.val = NoProfile, !.res = res]
                ELSE IF storeProfile # NoProfile
                THEN [c EXCEPT !.pc = "settled", !.val = storeProfile, !.res = "found"]
                ELSE [c EXCEPT !.pc = "insert"])
        /\ ev' = Other
        /\ UNCHANGED <<appVars, toolVars, storeVars, boundVars>>

\* Supabase.getUserProfile(), the answer of its insert of the default row: the
\* table is keyed by the user's id, so the store rejects the insert when a row
\* is there by now, and the function returns null on any createError
getUserProfile_insert(c, dbOk) ==
    LET newProfile == UserProfile("free", DefaultCredits)
        res == IF ~dbOk THEN "error" ELSE IF storeProfile # NoProfile THEN "conflict"
               ELSE "created"
    IN  /\ c.kind = "fetch" /\ c.pc = "insert"
        /\ storeProfile' = IF res = "created" THEN newProfile ELSE storeProfile
        /\ calls' = Replace(calls, c,
                [c EXCEPT !.pc = "settled", !.res = res,
                          !.val = IF res = "created" THEN newProfile ELSE NoProfile])
        /\ ev' = Other
        /\ UNCHANGED <<appVars, toolVars, authed, sites, chats, boundVars>>

\* App.fetchProfile, after await Supabase.getUserProfile()
fetchProfile(c) ==
    /\ c.kind = "fetch" /\ c.pc = "settled"
    /\ userProfile' = c.val
    /\ calls' = Remove(calls, c)
    /\ ev' = Event("fetched", c.tool, NoMsg, "none")
    /\ UNCHANGED <<authStage, session, activeTool, showUpgrade, toolVars, storeVars, boundVars>>

(* ---------------- the upgrade prompt ---------------- *)
\* the credit counter's onClick
OpenUpgrade ==
    /\ Rendered /\ ~showUpgrade
    /\ showUpgrade' = TRUE
    /\ ev' = Other
    /\ UNCHANGED <<authStage, session, activeTool, userProfile, toolVars, storeVars, calls,
                   boundVars>>

\* onClose
CloseUpgrade ==
    /\ Rendered /\ showUpgrade
    /\ showUpgrade' = FALSE
    /\ ev' = Other
    /\ UNCHANGED <<authStage, session, activeTool, userProfile, toolVars, storeVars, calls,
                   boundVars>>

\* UpgradeModal's checking flag: set until its own fetch has returned
checking == \E c \in InFlight : c.kind = "fetch" /\ c.tool = "modal" /\ c.att

UpgradeModal_handleCheck ==
    /\ Rendered /\ showUpgrade /\ ~checking
    /\ HasFree
    /\ calls' = Add(calls, FetchCall("modal"))
    /\ ev' = Other
    /\ UNCHANGED <<appVars, toolVars, storeVars, boundVars>>

(* ---------------- signing in and out ---------------- *)
LandingPage_onStart ==
    /\ authStage = "landing"
    /\ authStage' = "login"
    /\ ev' = Other
    /\ UNCHANGED <<session, activeTool, userProfile, showUpgrade, toolVars, storeVars, calls,
                   boundVars>>

\* LoginPage.handleSubmit signed in, then onLogin()
LoginPage_onLogin ==
    /\ authStage = "login"
    /\ logins < MaxLogins /\ HasFree
    /\ authed' = TRUE
    /\ authStage' = "app"
    /\ calls' = Add(calls, Call("getSession", "none", "login", NoProfile, TRUE))
    /\ logins' = logins + 1
    /\ ev' = Other
    /\ UNCHANGED <<session, activeTool, userProfile, showUpgrade, toolVars, storeProfile,
                   sites, chats, started, visited, maxStarted, envVars>>

\* Supabase.getSession().then(...)
getSessionReturn(c) ==
    /\ c.kind = "getSession"
    /\ IF c.pc = "boot"
       THEN IF authed
            THEN /\ session' = TRUE
                 /\ authStage' = "app"
                 /\ calls' = Replace(calls, c, FetchCall("app"))
            ELSE /\ calls' = Remove(calls, c)
                 /\ UNCHANGED <<session, authStage>>
       ELSE /\ session' = authed
            /\ calls' = Replace(calls, c, FetchCall("app"))
            /\ UNCHANGED authStage
    /\ ev' = Other
    /\ UNCHANGED <<activeTool, userProfile, showUpgrade, toolVars, storeVars, boundVars>>

\* the sign-out button
SignOutClick ==
    /\ Rendered /\ HasFree
    /\ calls' = Add(calls, SignOutCall)
    /\ ev' = Other
    /\ UNCHANGED <<appVars, toolVars, storeVars, boundVars>>

\* App.handleSignOut: Supabase.signOut() and what follows its await
handleSignOut(c) ==
    /\ c.kind = "signOut"
    /\ authed' = FALSE
    /\ session' = FALSE
    /\ userProfile' = NoProfile
    /\ authStage' = "landing"
    /\ loading' = FALSE
    /\ messages' = <<>>
    /\ currentChatId' = 0
    /\ content' = [t \in ContentTools |-> "empty"]
    /\ coder' = InitialCoder
    /\ calls' = Detach(Detach(Remove(calls, c), activeTool), "modal")
    /\ ev' = Event("signedOut", "none", NoMsg, "none")
    /\ UNCHANGED <<activeTool, showUpgrade, storeProfile, sites, chats, boundVars>>

(* ---------------- navigation ---------------- *)
\* Supabase.getSites(): the rows of the user, none without a user
getSites == IF authed THEN sites ELSE 0

\* the nav buttons: <motion.div key={activeTool}> remounts the tool
setActiveTool(t) ==
    /\ Rendered /\ t # activeTool
    /\ Cardinality(visited \cup {t}) <= MaxTools
    /\ activeTool' = t
    /\ visited' = visited \cup {t}
    /\ loading' = FALSE
    /\ messages' = <<>>
    /\ currentChatId' = 0
    /\ content' = [content EXCEPT ![SimpleT] = "empty"]
    \* CoderTool's mount effect: if (state.history.length === 0) load()
    /\ coder' = IF t = CoderT /\ coder.history = 0
                THEN [coder EXCEPT !.history = getSites] ELSE coder
    /\ calls' = Detach(calls, activeTool)
    /\ ev' = Other
    /\ UNCHANGED <<authStage, session, userProfile, showUpgrade, storeVars, started,
                   logins, maxStarted, envVars>>

\* CoderTool.saveVersion: Supabase.saveSite() and Supabase.getSites()
CoderTool_saveVersion(dbOk) ==
    /\ Rendered /\ activeTool = CoderT
    /\ authed => sites < MaxSites
    /\ IF authed /\ ~dbOk
       THEN UNCHANGED <<sites, coder>>
       ELSE /\ sites' = IF authed THEN sites + 1 ELSE sites
            /\ coder' = [coder EXCEPT !.history = IF authed THEN sites + 1 ELSE 0]
    /\ ev' = Event("versionSaved", CoderT, NoMsg, IF authed /\ ~dbOk THEN "error" ELSE "ok")
    /\ UNCHANGED <<appVars, loading, messages, currentChatId, content, authed, storeProfile,
                   chats, calls, boundVars>>

ChatTool_startNewChat ==
    /\ Rendered /\ activeTool = ChatT
    /\ messages # <<>> \/ currentChatId # 0
    /\ messages' = <<>>
    /\ currentChatId' = 0
    /\ ev' = Other
    /\ UNCHANGED <<appVars, loading, content, coder, storeVars, calls, boundVars>>

(* ---------------- the environment ---------------- *)
\* the payment provider upgrades the row
StorePayment ==
    /\ storeProfile # NoProfile /\ storeProfile.plan = "free"
    /\ storeProfile' = UserProfile("pro", storeProfile.credits)
    /\ ev' = Other
    /\ UNCHANGED <<appVars, toolVars, authed, sites, chats, calls, boundVars>>

\* the auth service drops the user
SessionExpires ==
    /\ authed /\ Rendered
    /\ authed' = FALSE
    /\ ev' = Other
    /\ UNCHANGED <<appVars, toolVars, storeProfile, sites, chats, calls, boundVars>>

(* ---------------- the steps ---------------- *)
ToolStart ==
    \E inp \in Inputs :
        \/ ChatTool_handleSend(inp)
        \/ ImageTool_handleGenerate(inp)
        \/ AudioTool_handleGenerate(inp)
        \/ CoderTool_handleCodeUpdate(inp)
        \/ SocialDesignTool_handleGenerate(inp)
        \/ SimpleGenTool_handleSend(inp)

ToolReturn ==
    \/ \E c \in InFlight, dbOk \in BOOLEAN : ChatTool_createChatReturn(c, dbOk)
    \/ \E c \in InFlight, resp \in Responses(ChatT) : ChatTool_generateReturn(c, resp)
    \/ \E c \in InFlight, ok \in BOOLEAN : ChatTool_titleReturn(c, ok)
    \/ \E c \in InFlight, res \in {"ok", "jwt", "error"} : ChatTool_updateChatReturn(c, res)
    \/ \E c \in InFlight, resp \in Responses(ImageT) : ImageTool_generateReturn(c, resp)
    \/ \E c \in InFlight, dbOk \in BOOLEAN : ImageTool_saveImageReturn(c, dbOk)
    \/ \E c \in InFlight, resp \in Responses(AudioT) : AudioTool_generateReturn(c, resp)
    \/ \E c \in InFlight, resp \in Responses(CoderT), echo \in BOOLEAN :
           CoderTool_generateReturn(c, resp, echo)
    \/ \E c \in InFlight, resp \in Responses(SocialT), echo \in BOOLEAN :
           SocialDesignTool_generateReturn(c, resp, echo)
    \/ \E c \in InFlight, resp \in Responses(SimpleT) : SimpleGenTool_generateReturn(c, resp)

Ledger ==
    \/ \E c \in InFlight, rpcOk \in BOOLEAN : consumeCredit(c, rpcOk)
    \/ \E c \in InFlight : handleConsumeCredit(c)

Profile ==
    \/ \E c \in InFlight, dbOk \in BOOLEAN : getUserProfile(c, dbOk)
    \/ \E c \in InFlight, dbOk \in BOOLEAN : getUserProfile_insert(c, dbOk)
    \/ \E c \in InFlight : fetchProfile(c)

Auth ==
    \/ LandingPage_onStart
    \/ LoginPage_onLogin
    \/ \E c \in InFlight : getSessionReturn(c)
    \/ SignOutClick
    \/ \E c \in InFlight : handleSignOut(c)

Modal ==
    \/ OpenUpgrade
    \/ CloseUpgrade
    \/ UpgradeModal_handleCheck

Navigation ==
    \/ \E t \in ToolType : setActiveTool(t)
    \/ ChatTool_startNewChat
    \/ \E dbOk \in BOOLEAN : CoderTool_saveVersion(dbOk)

Environment ==
    \/ StorePayment
    \/ SessionExpires

\* every tool, one handler at a time
Next ==
    \/ ToolStart
    \/ ToolReturn
    \/ Ledger
    \/ Profile
    \/ Auth
    \/ Navigation

Spec == Init /\ [][Next]_vars

(* ---------------- the ledger under overlapping handlers ---------------- *)
ChatStart == \E inp \in Inputs : ChatTool_handleSend(inp)

ChatReturn ==
    \/ \E c \in InFlight, dbOk \in BOOLEAN : ChatTool_createChatReturn(c, dbOk)
    \/ \E c \in InFlight, resp \in Responses(ChatT) : ChatTool_generateReturn(c, resp)
    \/ \E c \in InFlight, ok \in BOOLEAN : ChatTool_titleReturn(c, ok)
    \/ \E c \in InFlight, res \in {"ok", "jwt", "error"} : ChatTool_updateChatReturn(c, res)

\* the user stays in the chat tool, sends up to MaxOverlap messages and may resync
InitLedger == Boot /\ fin = NoArg /\ maxStarted = MaxOverlap

NextLedger ==
    \/ ChatStart
    \/ ChatReturn
    \/ Ledger
    \/ Profile
    \/ Auth
    \/ Modal

SpecLedger == InitLedger /\ [][NextLedger]_vars

(* ---------------- the upgrade prompt and the store's own changes ---------------- *)
NextResync ==
    \/ ChatStart
    \/ ChatReturn
    \/ Ledger
    \/ Profile
    \/ Auth
    \/ Modal
    \/ Environment

SpecResync == Init /\ [][NextResync]_vars

(* ---------------- two tools, handlers that overlap, and navigation ---------------- *)
\* the user signs in once, works in the image and audio tools, starts up to
\* MaxOverlap generations and moves between the tools; the profile is fetched
\* once, after sign-in, and never again
InitTools == Boot /\ fin = NoArg /\ maxStarted = MaxOverlap

NextTools ==
    \/ \E inp \in Inputs : ImageTool_handleGenerate(inp)
    \/ \E inp \in Inputs : AudioTool_handleGenerate(inp)
    \/ \E c \in InFlight, resp \in Responses(ImageT) : ImageTool_generateReturn(c, resp)
    \/ \E c \in InFlight, dbOk \in BOOLEAN : ImageTool_saveImageReturn(c, dbOk)
    \/ \E c \in InFlight, resp \in Responses(AudioT) : AudioTool_generateReturn(c, resp)
    \/ Ledger
    \/ Profile
    \/ LandingPage_onStart
    \/ LoginPage_onLogin
    \/ \E c \in InFlight : getSessionReturn(c)
    \/ \E t \in {ChatT, ImageT, AudioT} : setActiveTool(t)

SpecTools == InitTools /\ [][NextTools]_vars

(* ---------------- the coder tool while the auth service may drop the user ---------------- *)
NextCoder ==
    \/ \E inp \in Inputs : CoderTool_handleCodeUpdate(inp)
    \/ \E c \in InFlight, resp \in Responses(CoderT), echo \in BOOLEAN :
           CoderTool_generateReturn(c, resp, echo)
    \/ \E dbOk \in BOOLEAN : CoderTool_saveVersion(dbOk)
    \/ Ledger
    \/ Profile
    \/ LandingPage_onStart
    \/ LoginPage_onLogin
    \/ \E c \in InFlight : getSessionReturn(c)
    \/ \E t \in {ChatT, CoderT} : setActiveTool(t)
    \/ SessionExpires

SpecCoder == Init /\ [][NextCoder]_vars

(* ---------------- the generation facade called on its own ---------------- *)
Seqs(S, n) == UNION {[1..k -> S] : k \in 0..n}

NormalizerTokens == {"{", "}", "FENCE", "json", " ", "prose"}

\* texts that start with '{' and end with '}'
Objects ==
    { <<"{", "}">>,
      <<"{", "html", "css", "js", "}">>,
      <<"{", "{", "}", "}">>,
      <<"{", "}", " ", "{", "}">>,
      <<"{", "FENCE", "}">>,
      <<"{", "prose", "}">> }

Spaces == {<<>>, <<" ">>}
LeadingFences == {<<>>, <<"FENCE">>, <<"FENCE", "json">>, <<"FENCE", " ">>,
                  <<"FENCE", "json", " ">>}
TrailingFences == {<<>>, <<"FENCE">>}
BraceFree == {<<>>, <<" ">>, <<"prose">>, <<" ", "prose", " ">>}

\* white space, a leading fence, prose, the object O, prose, a trailing fence, white space
Framed(O) ==
    {w1 \o f1 \o p1 \o O \o p2 \o f2 \o w2 :
        w1 \in Spaces, f1 \in LeadingFences, p1 \in BraceFree, p2 \in BraceFree,
        f2 \in TrailingFences, w2 \in Spaces}

NormalizerTexts == Seqs(NormalizerTokens, MaxLen) \cup UNION {Framed(O) : O \in Objects}

ByteSamples == {0, 65, 255}

Payloads == Seqs(ByteSamples, MaxPcm)

\* sample rates by their digits: 24000, 44100, 2^31 - 1, 2^31 and 2^32 - 1
SampleRates ==
    { <<192, 93, 0, 0>>, <<68, 172, 0, 0>>, <<255, 255, 255, 127>>, <<0, 0, 0, 128>>,
      <<255, 255, 255, 255>> }

Generators == [generateTextChat |-> ChatT, generateImage |-> ImageT, generateAudio |-> AudioT,
               generateCode |-> CoderT, generateStructuredData |-> SocialT,
               generateText |-> SimpleT, generateSocialPost |-> SocialT]

FacadeArgs ==
    {[NoArg EXCEPT !.fn = fn, !.resp = resp, !.echo = echo] :
        fn \in DOMAIN Generators, resp \in UNION {Responses(t) : t \in ToolType},
        echo \in BOOLEAN}
    \cup {[NoArg EXCEPT !.fn = "cleanJson", !.text = text] : text \in NormalizerTexts}
    \cup {[NoArg EXCEPT !.fn = "pcmToWav", !.base64 = btoa(bytes), !.sampleRate = rate] :
            bytes \in Payloads, rate \in SampleRates}

InitFacade ==
    /\ Boot
    /\ authed /\ storeProfile = NoProfile
    /\ fin \in FacadeArgs
    /\ maxStarted = 0

\* one call of a generator with the provider's answer resp
FacadeCall(fn, res) ==
    /\ fin.fn = fn /\ fout = NoResult
    /\ fout' = [NoResult EXCEPT !.fn = fn, !.res = res]
    /\ ev' = Event("called", Generators[fn], res.msg, fn)
    /\ UNCHANGED <<appVars, toolVars, storeVars, calls, started, logins, visited, maxStarted,
                   apiKey, fin>>

Facade_generateTextChat == FacadeCall("generateTextChat", generateTextChat(fin.resp))
Facade_generateImage == FacadeCall("generateImage", generateImage(fin.resp))
Facade_generateAudio == FacadeCall("generateAudio", generateAudio(fin.resp))
Facade_generateCode == FacadeCall("generateCode", generateCode(fin.resp, fin.echo))
Facade_generateStructuredData ==
    FacadeCall("generateStructuredData", generateStructuredData(fin.resp, fin.echo))
Facade_generateText == FacadeCall("generateText", generateText(fin.resp))
Facade_generateSocialPost ==
    FacadeCall("generateSocialPost", generateSocialPost(fin.resp, fin.echo))

Facade_cleanJson ==
    /\ fin.fn = "cleanJson" /\ fout = NoResult
    /\ fout' = [NoResult EXCEPT !.fn = "cleanJson", !.text = cleanJson(fin.text)]
    /\ ev' = Event("called", "none", NoMsg, "cleanJson")
    /\ UNCHANGED <<appVars, toolVars, storeVars, calls, started, logins, visited, maxStarted,
                   apiKey, fin>>

Facade_pcmToWav ==
    /\ fin.fn = "pcmToWav" /\ fout = NoResult
    /\ fout' = [NoResult EXCEPT !.fn = "pcmToWav",
                                 !.wav = atob(pcmToWav(fin.base64, fin.sampleRate).base64)]
    /\ ev' = Event("called", "none", NoMsg, "pcmToWav")
    /\ UNCHANGED <<appVars, toolVars, storeVars, calls, started, logins, visited, maxStarted,
                   apiKey, fin>>

NextFacade ==
    \/ Facade_generateTextChat
    \/ Facade_generateImage
    \/ Facade_generateAudio
    \/ Facade_generateCode
    \/ Facade_generateStructuredData
    \/ Facade_generateText
    \/ Facade_generateSocialPost
    \/ Facade_cleanJson
    \/ Facade_pcmToWav

SpecFacade == InitFacade /\ [][NextFacade]_vars

(* ---------------- properties ---------------- *)
FreeProfile(profile) == profile # NoProfile /\ profile.plan = "free"

\* this step is a handler called with an input it does not ignore
Triggered == ev'.kind = "blocked" \/ started' > started

Consumes(cs) == {c \in BagToSet(cs) : c.kind = "consume"}

\* the handler c ends in this step and starts nothing
Ends(c) == c.kind = "handler" /\ calls' = Remove(calls, c)

\* C1: n consumes whose durable decrements succeed take the cached credits of
\* a free plan from c to max(0, c - n), also when they overlap: a consume that
\* finds the cache one ahead of the store, by its own decrement, lowers the
\* cached credits by one
C1_EachConsumeLowersByOne ==
    [][\A c \in InFlight :
          (/\ c.kind = "consume" /\ c.pc = "settled" /\ c.res = "ok"
           /\ FreeProfile(c.snap) /\ FreeProfile(userProfile) /\ FreeProfile(storeProfile)
           /\ userProfile.credits = storeProfile.credits + 1
           /\ ev'.kind = "consumed" /\ calls' = Remove(calls, c))
          => userProfile'.credits = Max(0, userProfile.credits - 1)]_vars

\* C2: a generation call is issued only while a profile is cached that is
\* pro or has credits left
C2_IssuedOnlyWithCredit ==
    ev.kind = "issued" =>
        /\ userProfile # NoProfile
        /\ userProfile.plan = "pro" \/ userProfile.credits > 0

\* C3, as claimed: with a cached free profile without credits, any trigger of a
\* tool's billable action, whatever the input, opens the upgrade prompt and
\* changes nothing else
C3_AnyTriggerBlocked ==
    [][((Triggered \/ ev'.kind = "ignored") /\ FreeProfile(userProfile)
            /\ userProfile.credits = 0)
       => (/\ ev'.kind = "blocked" /\ showUpgrade'
           /\ UNCHANGED <<toolVars, storeVars, calls>>)]_vars

\* C3, amended: with a cached free profile without credits, a trigger with a
\* non-blank input issues no call and no write, leaves the busy flag and the
\* content as they are, and opens the upgrade prompt
C3_TriggerBlocked ==
    [][(Triggered /\ FreeProfile(userProfile) /\ userProfile.credits = 0)
       => (/\ ev'.kind = "blocked" /\ showUpgrade'
           /\ UNCHANGED <<toolVars, storeVars, calls>>)]_vars

C3_Witness ==
    /\ ev.kind = "blocked" /\ ev.tool = CoderT
    /\ FreeProfile(userProfile) /\ userProfile.credits = 0
    /\ showUpgrade /\ ~loading

\* C4: a cached free-plan profile never has negative credits
C4_CreditsNonNegative == FreeProfile(userProfile) => userProfile.credits >= 0

C4_Witness ==
    /\ ev.kind = "consumed" /\ ev.note = "ok"
    /\ FreeProfile(userProfile) /\ userProfile.credits = 0
    /\ started = MaxOverlap

\* C5: once the save that follows a successful generation for a free-plan user
\* has ended, whatever its outcome, the consume of that attempt is under way
C5_ConsumeAfterSuccess ==
    (ev.kind \in {"saved", "saveFailed"} /\ ev.note = "free")
        => \E c \in Consumes(calls) : c.tool = ev.tool

\* C6: a failed generation call ends its handler: no consume, no durable
\* decrement, no second generation call, and the cached credits stay
C6_FailureConsumesNothing ==
    [][ev'.kind = "genFailed"
       => (/\ \E c \in InFlight : c.pc = "gen" /\ Ends(c)
           /\ UNCHANGED <<userProfile, storeProfile>>)]_vars

C6_Witness ==
    /\ ev.kind = "genFailed" /\ ev.tool = AudioT
    /\ FreeProfile(userProfile) /\ userProfile.credits > 0
    /\ Consumes(calls) = {}

\* C7: a consume whose durable decrement failed still leaves the cached credits
\* of a free-plan profile one lower
C7_LocalDecrementKept ==
    [][\A c \in InFlight :
          (/\ c.kind = "consume" /\ c.pc = "settled" /\ c.res # "ok"
           /\ FreeProfile(c.snap) /\ c.snap.credits > 0 /\ userProfile = c.snap
           /\ ev'.kind = "consumed" /\ calls' = Remove(calls, c))
          => userProfile'.credits = userProfile.credits - 1]_vars

\* C8: a structured generation whose output does not parse fails with an error
\* of its own: not the parser's message, not the quota or the safety message
C8_InvalidFormatError ==
    (ev.kind = "genFailed" /\ ev.note = "malformed")
        => ev.msg.id \notin {"SyntaxError", QuotaMsg.id, SafetyMsg.id}

\* C9: a code edit whose output is malformed leaves html, css, js, the version
\* list, the stored versions and the credits; the chat log gains the failure
\* message and the busy flag returns to false
C9_MalformedEditChangesNothing ==
    [][(ev'.tool = CoderT /\ ev'.kind \in {"genOk", "genFailed"} /\ ev'.note = "malformed")
       => (/\ coder'.html = coder.html /\ coder'.css = coder.css /\ coder'.js = coder.js
           /\ coder'.history = coder.history
           /\ UNCHANGED <<sites, userProfile, storeProfile>>
           /\ \E c \in InFlight :
                 /\ c.pc = "gen" /\ Ends(c)
                 /\ IF c.att THEN ~loading' /\ coder'.chatHistory = "failed"
                    ELSE UNCHANGED <<loading, coder>>)]_vars

C9_Witness ==
    /\ ev.kind = "genFailed" /\ ev.tool = CoderT /\ ev.note = "malformed"
    /\ coder.chatHistory = "failed" /\ ~loading
    /\ coder.html = "str" /\ coder.css = "str" /\ coder.js = "str"

\* C10: a code edit is accepted only when the parsed output has html, css and
\* js as strings, so the editor's three fields are strings after it
C10_AcceptedEditIsComplete ==
    (ev.kind = "genOk" /\ ev.tool = CoderT)
        => /\ ev.note = "complete"
           /\ coder.html = "str" /\ coder.css = "str" /\ coder.js = "str"

\* the generator called refused for lack of a credential, before any request
RefusedUnconfigured ==
    /\ ~fout.res.ok
    /\ fout.res.msg = ConfigMsg
    /\ ~fout.res.net

\* C11 as stated: with no credential, every generator of the facade (chat,
\* image, audio, code edit, structured data, free text, social post) raises
\* the configuration error and sends no request.
C11_EveryEntryPointRefuses ==
    (fout.fn \in DOMAIN Generators /\ ~apiKey) => RefusedUnconfigured

\* C11: with no credential, every generator that calls the model API (chat,
\* audio, code edit, structured data, free text, social post) raises the
\* configuration error and sends no request; the image generator checks no
\* credential and sends its request to the image provider.
C11_ModelEntryPointsRefuse ==
    (fout.fn \in DOMAIN Generators /\ ~apiKey) =>
        IF fout.fn = "generateImage"
        THEN fout.res.net /\ fout.res.msg # ConfigMsg
        ELSE RefusedUnconfigured

C11_Witness ==
    /\ ~apiKey
    /\ fout.fn = "generateAudio"
    /\ fin.resp.status = "ok" /\ fin.resp.data
    /\ RefusedUnconfigured

\* C12: when the provider's chat call succeeds, generateTextChat returns with
\* an empty source list whenever there is no grounding metadata: candidates
\* absent, candidates an empty list, a first candidate without metadata, or
\* metadata without chunks; it never raises.
C12_ChatReturnsWithoutGrounding ==
    (/\ fout.fn = "generateTextChat"
     /\ apiKey
     /\ fin.resp.status = "ok"
     /\ fin.resp.cand \in {"absent", "empty", "noMeta", "noChunks"})
    => (fout.res.ok /\ fout.res.val.kind = "text")

\* C13: with no authenticated user, every persistence write (createChat,
\* updateChat, deleteChat, saveImage, saveSite, consumeCredit) fails with an
\* unauthenticated error and writes nothing; none returns as if it had
\* succeeded. Here: no saveImage and no saveSite returns normally while the
\* auth service holds no user.
C13_UnauthenticatedWriteFails ==
    ~authed =>
        /\ ~(ev.kind = "saved" /\ ev.tool = ImageT)
        /\ ~(ev.kind = "versionSaved" /\ ev.note = "ok")

\* C14: whenever a persistence call of a tool (chat create or update, image
\* save, site save, credit consume) is rejected for lack of an authenticated
\* session, the app performs a forced sign-out: session and cached profile
\* null, saved tool states cleared, back to the login stage. Here: once the
\* app has received the rejection of a credit consume, the sign-out is done
\* or under way.
C14_RejectionForcesSignOut ==
    (ev.kind = "consumed" /\ ev.note = "unauth") =>
        \/ ~session /\ userProfile = NoProfile
        \/ BagIn(SignOutCall, calls)

\* C19: when the provider answers a generation with HTTP 429, the message the
\* tool shows the user is the quota-exceeded message, not the message the
\* tool shows for any other failure.
C19_QuotaMessageShown ==
    (ev.kind = "genFailed" /\ ev.msg = QuotaMsg /\ ev.note = "none")
    => ev.shown.detail = QuotaMsg

\* C15: for every output text with no '{' or no '}' (the empty text, white
\* space only, fences only, prose) the normalizer returns exactly "{}".
C15_BracelessGivesEmptyObject ==
    (/\ fout.fn = "cleanJson"
     /\ (IndexOf(fin.text, "{") = 0 \/ IndexOf(fin.text, "}") = 0))
    => fout.text = <<"{", "}">>

\* the input is white space, a leading fence with or without its tag, brace-free
\* prose, the object O, brace-free prose, a trailing fence, white space
IsFramed(text, O) == text \in Framed(O)

\* C16: for every input made of optional white space, an optional leading
\* fence (with or without the json tag), optional brace-free prose, a text O
\* from '{' to '}', optional brace-free prose, an optional trailing fence and
\* optional white space, the normalizer returns exactly O; an input that is
\* already O is returned unchanged.
C16_FramedObjectRecovered ==
    \A O \in Objects :
        (fout.fn = "cleanJson" /\ IsFramed(fin.text, O)) => fout.text = O

C16_Witness ==
    /\ fout.fn = "cleanJson"
    /\ fin.text = <<" ", "FENCE", "json", " ", "prose", "{", "prose", "}", "prose", "FENCE", " ">>
    /\ fout.text = <<"{", "prose", "}">>

\* the payload handed to the builder, and the fields of what it built
PcmPayload == atob(fin.base64)
TotalSizeField == SubSeq(fout.wav, 5, 8)
ByteRateField == SubSeq(fout.wav, 29, 32)
DataSizeField == SubSeq(fout.wav, 41, 44)

\* the container is 44 + N bytes, declares N and 36 + N, and ends with the payload
SizesAndPayloadKept ==
    /\ Len(fout.wav) = 44 + Len(PcmPayload)
    /\ DataSizeField = Uint32(Len(PcmPayload))
    /\ TotalSizeField = Uint32(36 + Len(PcmPayload))
    /\ SubSeq(fout.wav, 45, Len(fout.wav)) = PcmPayload

\* the byte-rate field, read as a number, is twice the sample rate
ByteRateIsTwice == ByteRateField \o <<0>> = Times2(fin.sampleRate)

C17_EveryCallReturnsTheProfile ==
    \A c \in InFlight :
        (c.kind = "fetch" /\ c.pc = "settled" /\ c.res \notin {"unauth", "error"})
        => c.val # NoProfile

\* the handler c runs a chat turn on a new conversation: it had no session and
\* an empty transcript when it started
NewConversation(c) ==
    /\ c.kind = "handler" /\ c.tool = ChatT /\ c.msgs = <<>>
    /\ c.pc = "createChat" \/ c.chatId = c.id

\* where a turn on a new conversation stands: its session is created before
\* the model is invoked, its consume is not begun before its transcript is
\* persisted
StepsInOrder ==
    /\ \A c \in InFlight :
          NewConversation(c) =>
            /\ c.pc = "createChat" => ~chats[c.id].created
            /\ c.pc \in {"gen", "title", "updateChat"} => chats[c.id].created
            /\ \A d \in InFlight : ~(d.kind = "consume" /\ d.id = c.id)
    /\ \A d \in InFlight :
          (d.kind = "consume" /\ d.tool = ChatT /\ chats[d.id].created)
          => Len(chats[d.id].messages) >= 2

\* a row of table chats changes only when a chat handler's createChat returns,
\* or when the updateChat it sent after the model's reply returns
WrittenInTurn ==
    \A id \in ChatIds :
        chats'[id] # chats[id] =>
            \E c \in InFlight :
                /\ c.kind = "handler" /\ c.tool = ChatT
                /\ \/ /\ c.pc = "createChat" /\ c.id = id
                      /\ chats'[id] = NewChat
                   \/ /\ c.pc = "updateChat" /\ c.chatId = id
                      /\ chats'[id].messages = c.msgs \o <<"user", "model">>

\* the step in which handler c, on a new conversation, has persisted its transcript
Persists(c) ==
    /\ NewConversation(c) /\ c.pc = "updateChat"
    /\ calls' = Replace(calls, c, ConsumeCall(c))

\* the step in which the app learns that the consume d of a chat turn succeeded
Charged(d) ==
    /\ d.kind = "consume" /\ d.tool = ChatT /\ d.pc = "settled" /\ d.res = "ok"
    /\ calls' = Remove(calls, d)

ProProfile(profile) == profile # NoProfile /\ profile.plan = "pro"

\* the step in which the app learns the outcome of the consume d
Settles(d) ==
    /\ d.kind = "consume" /\ d.pc = "settled"
    /\ ev'.kind = "consumed" /\ calls' = Remove(calls, d)

\* C21: while the cached profile has plan 'pro', a consume leaves the cached
\* profile, plan and credits, as it is, and the gate blocks no trigger,
\* whatever the credits are.
C21_ProUnaffected ==
    [][ProProfile(userProfile) =>
          /\ \A d \in InFlight : Settles(d) => userProfile' = userProfile
          /\ Triggered => ev'.kind # "blocked"]_vars

\* the generation calls of tool t that have not returned yet
Generating(t) == {d \in InFlight : d.kind = "handler" /\ d.tool = t /\ d.pc = "gen"}

\* C22: at most one generation call per tool is in flight at any time, also
\* when the user leaves the tool and comes back before the first call returns.
C22_OneCallPerTool == \A t \in ToolType : Cardinality(Generating(t)) <= 1

\* the step is a 'save version' that told the user it succeeded
SaveReportedSuccess == ev'.kind = "versionSaved" /\ ev'.note = "ok"

\* C23: a 'save version' that reports success adds exactly one snapshot to
\* the stored versions and to the version list shown, and removes none of
\* the entries already there; a save that stores nothing reports no success.
C23_SaveAddsOneVersion ==
    [][SaveReportedSuccess =>
          /\ sites' = sites + 1
          /\ coder'.history = sites'
          /\ coder'.history >= coder.history]_vars

\* the step in which chat handler c persists the first exchange of its session
FirstExchangePersisted(c) ==
    /\ c.kind = "handler" /\ c.tool = ChatT /\ c.pc = "updateChat"
    /\ chats[c.chatId].messages = <<>>
    /\ ev'.kind = "saved" /\ calls' = Replace(calls, c, ConsumeCall(c))

\* C24: when the first exchange of a session has succeeded, a title was asked
\* of the model for it (the generated one, or 'Novo Chat' when the title
\* generation failed) and is written to the persisted row with the transcript,
\* whether or not earlier sends of that conversation failed.
C24_FirstExchangeTitled ==
    [][\A c \in InFlight :
          FirstExchangePersisted(c) =>
              /\ c.res \in {"generated", "Novo Chat"}
              /\ chats'[c.chatId].title = c.res]_vars

\* the generators that pass what they catch through formatError
Formatting == DOMAIN Generators \ {"generateImage"}

\* the provider answered the call with an error
ProviderFailed == fin.resp.status = "error"

\* C25: of an error e reported by the provider, the facade gives the quota
\* message when e's message holds '429' or its status or error.code is 429,
\* otherwise the content-policy message when the message holds 'SAFETY',
\* otherwise the message unchanged; and no error that the provider did not
\* report is given the quota or the content-policy message.
C25_ClassifiesProviderErrorsOnly ==
    (fout.fn \in Formatting /\ apiKey) =>
        /\ ProviderFailed =>
              /\ ~fout.res.ok
              /\ LET e == fin.resp.err
                 IN  \/ /\ e.msg.has429 \/ e.status = 429
                        /\ fout.res.msg = QuotaMsg
                     \/ /\ ~(e.msg.has429 \/ e.status = 429) /\ e.msg.hasSafety
                        /\ fout.res.msg = SafetyMsg
                     \/ /\ ~(e.msg.has429 \/ e.status = 429) /\ ~e.msg.hasSafety
                        /\ fout.res.msg = e.msg
        /\ (~fout.res.ok /\ fout.res.msg \in {QuotaMsg, SafetyMsg}) => ProviderFailed

\* the billable calls, not yet settled, that were issued while the cache
\* showed a free profile with s credits
IssuedAt(s) ==
    {d \in InFlight : /\ d.kind \in {"handler", "consume"}
                      /\ FreeProfile(d.snap) /\ d.snap.credits = s}

\* C26: with c credits cached for a free user and no resync, at most c
\* billable calls are issued, whatever the interleaving: c - s of them went
\* before the cache showed s credits, so at most s are issued under a cache
\* that shows s credits.
C26_CallsWithinCredits ==
    \A d \in InFlight :
        (d.kind \in {"handler", "consume"} /\ FreeProfile(d.snap))
            => Cardinality(IssuedAt(d.snap.credits)) <= d.snap.credits

\* the app is where a completed sign-out leaves it
SignedOut == authStage = "landing" /\ ~session

\* C27: while the app is signed out (stage 'landing', no session) the cached
\* profile is null, also when a generation call or a consume that was
\* started before the sign-out completes after it.
C27_NoProfileWhileSignedOut == SignedOut => userProfile = NoProfile

\* C28: when the plan in the cache is no longer the plan cached at the start
\* of a generation, because a resync has stored the profile read from the
\* store in between, the consume of that generation does not put the older
\* plan back: after a resync that returned 'pro' the cached plan stays 'pro'.
C28_ResyncedPlanKept ==
    [][\A d \in InFlight :
          (Settles(d) /\ userProfile # NoProfile /\ d.snap.plan # userProfile.plan)
              => userProfile'.plan = userProfile.plan]_vars

\* user, model, user, model, ... : no placeholder, no two messages of one role in a row
Alternating(ms) == \A i \in 1..Len(ms) : ms[i] = IF i % 2 = 1 THEN "user" ELSE "model"

\* the chat handlers whose generateTextChat(apiHistory, ...) is in flight
AwaitingReply == {c \in InFlight : c.kind = "handler" /\ c.tool = ChatT /\ c.pc = "gen"}

\* C29: every history passed to the model and every persisted transcript
\* holds only user messages and replies of the model, alternating user,
\* model from a user message on; the error placeholder is in neither.
C29_TranscriptsAlternate ==
    /\ \A c \in AwaitingReply : Alternating(c.msgs)
    /\ \A id \in ChatIds : Alternating(chats[id].messages)

\* the tools whose result lives in the tool's state only: nothing of it is stored
Unstored == {AudioT, CoderT}

\* the step in which the store takes a credit for the consume d
Charges(d) ==
    /\ d.kind = "consume" /\ d.pc = "rpc"
    /\ ev'.kind = "rpc" /\ ev'.note = "ok"
    /\ calls' = Replace(calls, d, [d EXCEPT !.pc = "settled", !.res = "ok"])
    /\ FreeProfile(storeProfile) /\ storeProfile'.credits = storeProfile.credits - 1

\* C30: a credit is consumed only for a result that was delivered into its
\* tool's state: for a call whose tool the user left while the call was in
\* flight, the result is dropped and no credit is consumed.
C30_ChargedOnlyIfDelivered ==
    [][\A d \in InFlight : (Charges(d) /\ d.tool \in Unstored) => d.att]_vars

====
